---- MODULE Spec2Model ----
(***************************************************************************)
(* Model of customplot.py of tfpf/graph-plot: the symbolic tick generator  *)
(* _labels_and_ticks, the axis synchroniser limit and the discontinuity    *)
(* filter sanitise; and of CustomPlot.axis_fix of graph_plot.py, the older *)
(* revision of limit.                                                      *)
(*                                                                         *)
(* Numbers.  first, last and step are rationals; they are represented by   *)
(* the integer numerator over the common denominator Q (first = F / Q).    *)
(* symval and v are integers in units of pi (1 is pi, 2 is 2*pi), so a     *)
(* position symval * coefficient is the integer symval * F in units of     *)
(* pi / Q, and 2*pi is the integer 2 * Q on that grid.                     *)
(*                                                                         *)
(* The arguments of limit and the positions on an axes carry one more      *)
(* digit: the integer n stands for the grid point n div Fine displaced by  *)
(* n % Fine times a positive quantity d that lies below every tolerance of *)
(* the code (np.isclose, limit_denominator) and above zero.  A float that  *)
(* is almost, but not exactly, 0 is the integer 1.                         *)
(*                                                                         *)
(* Strings.  A LaTeX string is the sequence of the pieces the code joins:  *)
(* the delimiters, single decimal digits and the symbol's LaTeX codes.     *)
(***************************************************************************)
EXTENDS Integers, Sequences, FiniteSets, TLC

VARIABLES lt, ax, call, san, fix, pol, tab, gui

vars == <<lt, ax, call, san, fix, pol, tab, gui>>

\* Common denominator of the rationals first, last and step.
Q == 4
\* first and last range over -MaxNum/Q .. MaxNum/Q.
MaxNum == 13
\* step ranges over -1/Q .. MaxStep/Q.
MaxStep == 3
\* A number of limit is displaced by less than Fine times d.
Fine == 4
\* sanitise is given sequences of at most MaxLen values from 0..MaxVal.
MaxLen == 3
MaxVal == 2
\* The figures polish works on hold at most MaxAxes axes together, and
\* polish is called at most MaxPolish times.
MaxAxes == 3
MaxPolish == 3
\* The options window has at most MaxTabs pages, an axes title has at most
\* MaxTitle characters, and the window is at most MaxWinWidth units wide.
\* The user causes at most MaxEvents widget events in the options window.
MaxEvents == 3
MaxTabs == 2
MaxTitle == 3
MaxWinWidth == 6

None == "None"

Abs(x) == IF x < 0 THEN -x ELSE x

Max(a, b) == IF a >= b THEN a ELSE b

RECURSIVE GCD(_, _)
GCD(a, b) == IF b = 0 THEN a ELSE GCD(b, a % b)

\* ceil(a / b) for b # 0.
CeilDiv(a, b) == IF b > 0 THEN -((-a) \div b) ELSE -(a \div (-b))

\* floor(a / b) for b # 0.
FloorDiv(a, b) == IF b > 0 THEN a \div b ELSE (-a) \div (-b)

(***************************************************************************)
(* fractions.Fraction(coefficient).limit_denominator(): the reduced        *)
(* fraction num/den of the coefficient C / Q (den > 0; zero is 0/1).  The  *)
(* float held by the coefficient array is taken to be the rational it      *)
(* stands for.                                                             *)
(***************************************************************************)
FractionOf(C) ==
    LET g == GCD(Abs(C), Q)
    IN  [numerator |-> C \div g, denominator |-> Q \div g]

\* Q is far below the default max_denominator (1000000), for which
\* limit_denominator returns the fraction itself.
limit_denominator(C) == FractionOf(C)

(***************************************************************************)
(* f'{num}': the decimal digits of a natural number, most significant      *)
(* first.                                                                  *)
(***************************************************************************)
DigitChar == <<"0", "1", "2", "3", "4", "5", "6", "7", "8", "9">>

\* Mutant: the digits written least significant first.
RECURSIVE format_int_reversed(_)
format_int_reversed(n) ==
    IF n < 10 THEN <<DigitChar[n + 1]>>
    ELSE <<DigitChar[(n % 10) + 1]>> \o format_int_reversed(n \div 10)

RECURSIVE format_int(_)
format_int(n) ==
    IF n < 10 THEN <<DigitChar[n + 1]>>
    ELSE format_int(n \div 10) \o <<DigitChar[(n % 10) + 1]>>

(***************************************************************************)
(* symbol.split('/') unpacked into s_num, s_den; when the split does not   *)
(* give exactly two parts the ValueError branch takes the whole symbol as  *)
(* s_num and '1' as s_den.                                                 *)
(***************************************************************************)
Slashes(symbol) == {i \in 1..Len(symbol) : symbol[i] = "/"}

s_num_of(symbol) ==
    IF Cardinality(Slashes(symbol)) = 1
    THEN SubSeq(symbol, 1, (CHOOSE i \in Slashes(symbol) : TRUE) - 1)
    ELSE symbol

s_den_of(symbol) ==
    IF Cardinality(Slashes(symbol)) = 1
    THEN SubSeq(symbol, (CHOOSE i \in Slashes(symbol) : TRUE) + 1, Len(symbol))
    ELSE <<"1">>

(***************************************************************************)
(* np.arange(first, last + step / 2, step): its length is                  *)
(* ceil((stop - start) / step), never negative, and item i is              *)
(* start + i * step.  step = 0 makes numpy raise.                          *)
(***************************************************************************)
\* Mutant: the length floor((last - first) / step + 0.5) + 1.
arange_len_floor(F, L, S) == Max(0, FloorDiv(2 * (L - F) + S, 2 * S) + 1)

\* Mutant: the stop value last, without the half step.
arange_len_to_last(F, L, S) == Max(0, CeilDiv(L - F, S))

\* Mutant: the stop value last + step, a whole step beyond last.
arange_len_plus_step(F, L, S) == Max(0, CeilDiv(L - F + S, S))

arange_len(F, L, S) == Max(0, CeilDiv(2 * (L - F) + S, 2 * S))

arange(F, L, S) == [i \in 1..arange_len(F, L, S) |-> F + (i - 1) * S]

(***************************************************************************)
(* The body of the loop of _labels_and_ticks: the label of one             *)
(* coefficient.                                                            *)
(***************************************************************************)
\* Mutant: the fraction construct decided by the coefficient alone.
is_fraction_den_only(den, s_den) == den # 1

\* Line 123.
is_fraction(den, s_den) == den # 1 \/ s_den # <<"1">>

\* Mutant: the minus sign written inside the fraction construct.
label_prefix_minus_inside(numerator, frac) ==
    <<"$">>
    \o (IF frac THEN <<"\\dfrac{">> ELSE <<>>)
    \o (IF numerator < 0 THEN <<"-">> ELSE <<>>)

\* Lines 117-125: the delimiter, the sign, the opening of the fraction.
label_prefix(numerator, frac) ==
    <<"$">>
    \o (IF numerator < 0 THEN <<"-">> ELSE <<>>)
    \o (IF frac THEN <<"\\dfrac{">> ELSE <<>>)

\* Mutant: the symbol's numerator part '1' never written.
label_numerator_drop_one(num, s_num) ==
    (IF num # 1 THEN format_int(num) ELSE <<>>)
    \o (IF s_num # <<"1">> THEN s_num ELSE <<>>)

\* Lines 126-129: the numerator (num is the magnitude).
label_numerator(num, s_num) ==
    (IF num # 1 THEN format_int(num) ELSE <<>>)
    \o (IF s_num # <<"1">> \/ num = 1 THEN s_num ELSE <<>>)

\* Lines 132-135: the denominator.
label_denominator(den, s_den) ==
    (IF den # 1 THEN format_int(den) ELSE <<>>)
    \o (IF s_den # <<"1">> THEN s_den ELSE <<>>)

\* Lines 117-139: the label of a non-zero coefficient.
label_nonzero(value, s_num, s_den) ==
    LET frac == is_fraction(value.denominator, s_den)
    IN  label_prefix(value.numerator, frac)
        \o label_numerator(Abs(value.numerator), s_num)
        \o (IF frac THEN <<"}{">> ELSE <<>>)
        \o label_denominator(value.denominator, s_den)
        \o (IF frac THEN <<"}">> ELSE <<>>)
        \o <<"$">>

\* Mutant: zero labelled like any other coefficient.
label_of_no_zero_case(coefficient, s_num, s_den) ==
    label_nonzero(limit_denominator(coefficient), s_num, s_den)

\* Lines 105-139.
label_of(coefficient, s_num, s_den) ==
    IF limit_denominator(coefficient).numerator = 0 THEN <<"$", "0", "$">>
    ELSE label_nonzero(limit_denominator(coefficient), s_num, s_den)

(***************************************************************************)
(* _labels_and_ticks(first, last, step, symbol, symval).                   *)
(***************************************************************************)
\* Mutant: the labels filled in from the far end of the coefficients.
labels_of_reversed(coefficients, symbol) ==
    [i \in 1..Len(coefficients) |->
        label_of(coefficients[Len(coefficients) + 1 - i],
                 s_num_of(symbol), s_den_of(symbol))]

labels_of(coefficients, symbol) ==
    [i \in 1..Len(coefficients) |->
        label_of(coefficients[i], s_num_of(symbol), s_den_of(symbol))]

\* Mutant: the positions are multiples of the size of symval.
ticks_of_unsigned(coefficients, symval) ==
    [i \in 1..Len(coefficients) |-> Abs(symval) * coefficients[i]]

ticks_of(coefficients, symval) ==
    [i \in 1..Len(coefficients) |-> symval * coefficients[i]]

_labels_and_ticks(first, last, step, symbol, symval) ==
    IF step = 0 THEN [raised |-> TRUE, labels |-> <<>>, ticks |-> <<>>]
    ELSE LET coefficients == arange(first, last, step)
         IN  [raised |-> FALSE,
              labels |-> labels_of(coefficients, symbol),
              ticks  |-> ticks_of(coefficients, symval)]

(***************************************************************************)
(* The Matplotlib axes limit works on, seen through the accessors limit    *)
(* fetches for one coordinate: get/set_{coordaxis}ticks,                   *)
(* get/set_{coordaxis}ticklabels, set_{coordaxis}lim and {coordaxis}axis.  *)
(* A call touches the axis of its coordinate only, so a behaviour follows  *)
(* the calls made for one coordinate (ax.coordaxis) of one axes (ax.name). *)
(* Tick positions and limits are numbers of limit in units of pi.          *)
(*                                                                         *)
(*   ticks_fixed, ticks  the locator: the ticks set by set_ticks, or the   *)
(*                       host's automatic choice while none was set        *)
(*   formatter, labels   "fixed" with the labels set by set_ticklabels, or *)
(*                       a formatter that renders the tick values          *)
(*   lims                the view limits                                   *)
(*   pad                 the tick label padding                            *)
(***************************************************************************)
AxesNames == {"rectilinear", "polar", "3d"}

Coords == {"x", "y", "z"}

\* The integer of limit that stands for 1 (a coefficient) or pi (a position).
Grid == Q * Fine

\* The grid point a number of limit is displaced from.
Coarse(n) == n \div Fine

TwoPi == 2 * Grid

default_lims(name, coordaxis) ==
    IF name = "polar" /\ coordaxis = "x" THEN <<0, TwoPi>> ELSE <<0, Grid>>

new_axes(name, coordaxis) ==
    [name |-> name, coordaxis |-> coordaxis,
     ticks_fixed |-> FALSE, ticks |-> <<>>,
     formatter |-> "default", labels |-> <<>>,
     lims |-> default_lims(name, coordaxis),
     pad |-> "default"]

Min(a, b) == IF a <= b THEN a ELSE b

SeqMin(t) == CHOOSE m \in {t[i] : i \in 1..Len(t)} : \A i \in 1..Len(t) : m <= t[i]

SeqMax(t) == CHOOSE m \in {t[i] : i \in 1..Len(t)} : \A i \in 1..Len(t) : m >= t[i]

\* A running call: the axes and the log of the accessor calls made so far.
Entry(op, arg) == [op |-> op, arg |-> arg]

\* set_{coordaxis}ticks: installs the ticks; the host widens the view limits
\* to hold all of them.
ticks_setter(st, ticks) ==
    [ax  |-> [st.ax EXCEPT !.ticks_fixed = TRUE, !.ticks = ticks,
                           !.lims = IF Len(ticks) = 0 THEN @
                                    ELSE <<Min(@[1], SeqMin(ticks)),
                                           Max(@[2], SeqMax(ticks))>>],
     log |-> Append(st.log, Entry("set_ticks", ticks))]

\* set_{coordaxis}ticklabels: installs fixed label strings.
labels_setter(st, labels) ==
    [ax  |-> [st.ax EXCEPT !.formatter = "fixed", !.labels = labels],
     log |-> Append(st.log, Entry("set_ticklabels", labels))]

\* set_{coordaxis}lim.
limits_setter(st, lo, hi) ==
    [ax  |-> [st.ax EXCEPT !.lims = <<lo, hi>>],
     log |-> Append(st.log, Entry("set_lim", <<lo, hi>>))]

\* {coordaxis}axis.set_major_formatter: replaces fixed labels by a formatter.
set_major_formatter(st, formatter) ==
    [ax  |-> [st.ax EXCEPT !.formatter = formatter, !.labels = <<>>],
     log |-> Append(st.log, Entry("set_major_formatter", formatter))]

\* ax.tick_params(axis=coordaxis, which='major', pad=...).
tick_params(st, pad) ==
    [ax  |-> [st.ax EXCEPT !.pad = pad],
     log |-> Append(st.log, Entry("tick_params", pad))]

\* Mutant: the canvas is not drawn.
canvas_draw_skipped(st) == st

\* ax.figure.canvas.draw(): the host realizes ticks and label texts.
canvas_draw(st) ==
    [ax  |-> st.ax,
     log |-> Append(st.log, Entry("draw", "canvas"))]

(***************************************************************************)
(* The text the host's formatters give a tick at position t (in units of   *)
(* pi / Grid): ScalarFormatter writes the value to two decimals, taking pi *)
(* as 355/113; ThetaFormatter writes the angle in degrees.                 *)
(***************************************************************************)
two_digits(n) == <<DigitChar[(n \div 10) + 1], DigitChar[(n % 10) + 1]>>

scalar_text(t) ==
    LET hundredths == (2 * Abs(t) * 35500 + 113 * Grid) \div (2 * 113 * Grid)
    IN  (IF t < 0 THEN <<"-">> ELSE <<>>)
        \o format_int(hundredths \div 100) \o <<".">>
        \o two_digits(hundredths % 100)

theta_text(t) ==
    (IF t < 0 THEN <<"-">> ELSE <<>>)
    \o format_int((2 * Abs(t) * 180 + Grid) \div (2 * Grid)) \o <<"deg">>

\* get_{coordaxis}ticks: the fixed ticks, or the host's automatic choice.
ticks_getter(a, auto) == IF a.ticks_fixed THEN a.ticks ELSE auto

\* [label.get_text() for label in get_{coordaxis}ticklabels()] after a draw.
label_texts(a, ticks) ==
    [i \in 1..Len(ticks) |->
        IF a.formatter = "fixed"
        THEN (IF i <= Len(a.labels) THEN a.labels[i] ELSE <<>>)
        ELSE IF a.formatter = "theta"
                \/ (a.formatter = "default" /\ a.name = "polar" /\ a.coordaxis = "x")
        THEN theta_text(ticks[i])
        ELSE scalar_text(ticks[i])]

\* np.isclose(a, b): |a - b| <= atol + rtol * |b| with atol = 1e-8 and
\* rtol = 1e-5.  A displacement is below atol, and one step of the grid of
\* pi / Q is above atol + rtol * |b| for every b of the model: two numbers
\* are close exactly if they are displaced from the same grid point.
isclose(a, b) == Coarse(a) = Coarse(b)

(***************************************************************************)
(* limit(ax, coordaxis, symbolic, s, v, first, last, step).  An optional   *)
(* argument is <<>> for None and <<n>> for the number n.  The result is    *)
(* the axes after the call, the log of the accessor calls in the order the *)
(* call made them, and how the call ended: "True", "False", or the         *)
(* exception that left it.  auto is what the host's automatic locator      *)
(* yields if the axis has no fixed ticks when the call reads them.         *)
(***************************************************************************)
Given(arg) == arg # <<>>

Finish(st, ret) == [ax |-> st.ax, log |-> st.log, ret |-> ret]

DropLast(seq) == SubSeq(seq, 1, Len(seq) - 1)

\* Mutant: the first label is blanked whatever the first value is.
Blank_first_always(labels, zero_first) ==
    [i \in 1..Len(labels) |->
        IF i = Len(labels) \/ i = 1 THEN <<>> ELSE labels[i]]

\* labels[0] = '' if zero_first; labels[-1] = ''  (labels is not empty).
Blank(labels, zero_first) ==
    [i \in 1..Len(labels) |->
        IF i = Len(labels) \/ (i = 1 /\ zero_first) THEN <<>> ELSE labels[i]]

\* A value written as a Python int (the whole numbers among first, last and
\* step are the ones callers write as ints).
is_int(t) == t % Grid = 0

\* Mutant: the limits written before the ticks and the labels.
symbolic_writes_limits_first(st, ticks, labels, lo, hi) ==
    labels_setter(ticks_setter(limits_setter(st, lo, hi), ticks), labels)

\* Mutant: the ticks written after the labels and the limits.
symbolic_writes_ticks_last(st, ticks, labels, lo, hi) ==
    ticks_setter(limits_setter(labels_setter(st, labels), lo, hi), ticks)

\* Lines 316-318: the three writes of the symbolic branch.
symbolic_writes(st, ticks, labels, lo, hi) ==
    limits_setter(labels_setter(ticks_setter(st, ticks), labels), lo, hi)

\* Lines 324-330: the padding of the tick labels.
symbolic_padding(st, first, last, step) ==
    IF st.ax.name = "rectilinear" /\ st.ax.coordaxis = "x"
       /\ ~(is_int(first) /\ is_int(last) /\ is_int(step))
    THEN [ax  |-> tick_params(st, "20").ax,
          log |-> Append(tick_params(st, "20").log,
                         Entry("get_ticklabels", "align"))]
    ELSE tick_params(st, "9.9")

\* Line 299: _labels_and_ticks on the numbers of limit.  The displacement of
\* first is too small to add a lattice point or to change a label
\* (limit_denominator rounds it away); it displaces every position by v
\* times as much.  last and step are not displaced.
symbolic_lattice(first, last, step, s, v) ==
    LET lat == _labels_and_ticks(Coarse(first), Coarse(last), Coarse(step), s, v)
    IN  [raised |-> lat.raised,
         labels |-> lat.labels,
         ticks  |-> [i \in 1..Len(lat.ticks) |->
                        Fine * lat.ticks[i] + v * (first % Fine)]]

\* Mutant: a full turn is a range from 0 to 2 times the unit value.
symbolic_full_turn_of_unit(first, last, v) == first = 0 /\ isclose(last, 2 * Grid)

\* Line 306: first == 0 and np.isclose(last * v, 2 * np.pi).
symbolic_full_turn(first, last, v) == first = 0 /\ isclose(last * v, TwoPi)

\* Mutant: a symbolic call without first, last or step falls back to the
\* automatic mode.
symbolic_missing_falls_back(st, first, last) ==
    Finish(set_major_formatter(IF Given(first) /\ Given(last)
                               THEN limits_setter(st, first[1], last[1])
                               ELSE st,
                               "scalar"),
           "True")

\* Lines 296-297: first, last or step is None.
symbolic_missing(st, first, last) == Finish(st, "ValueError")

\* Lines 295-330.
limit_symbolic(st, s, v, first, last, step) ==
    IF ~(Given(first) /\ Given(last) /\ Given(step))
    THEN symbolic_missing(st, first, last)
    ELSE
    LET lat   == symbolic_lattice(first[1], last[1], step[1], s, v)
        polar == st.ax.name = "polar"
        turn  == polar /\ st.ax.coordaxis = "x"
                 /\ symbolic_full_turn(first[1], last[1], v)
        rad   == polar /\ ~turn /\ st.ax.coordaxis = "y"
        labels == IF turn THEN DropLast(lat.labels)
                  ELSE IF rad THEN Blank(lat.labels, first[1] = 0)
                  ELSE lat.labels
        ticks  == IF turn THEN DropLast(lat.ticks) ELSE lat.ticks
    IN  IF lat.raised THEN Finish(st, "ArangeError")
        ELSE IF rad /\ Len(lat.labels) = 0 THEN Finish(st, "IndexError")
        ELSE Finish(symbolic_padding(
                        symbolic_writes(st, ticks, labels, v * first[1], v * last[1]),
                        first[1], last[1], step[1]),
                    "True")

\* Mutant: the limits requested before the ticks.
automatic_requests_limits_first(st, first, last, step) ==
    LET st1 == IF Given(first) /\ Given(last)
               THEN limits_setter(st, first[1], last[1])
               ELSE st
    IN  IF Given(first) /\ Given(last) /\ Given(step)
        THEN ticks_setter(st1, arange(first[1], last[1], step[1]))
        ELSE st1

\* Mutant: an argument that is 0 counts as omitted.
automatic_requests_truthy(st, first, last, step) ==
    LET st1 == IF Given(first) /\ Given(last) /\ Given(step)
                  /\ first[1] # 0 /\ last[1] # 0 /\ step[1] # 0
               THEN ticks_setter(st, arange(first[1], last[1], step[1]))
               ELSE st
    IN  IF Given(first) /\ Given(last) /\ first[1] # 0 /\ last[1] # 0
        THEN limits_setter(st1, first[1], last[1])
        ELSE st1

\* Lines 334-337: the ticks and limits requested in automatic mode.
automatic_requests(st, first, last, step) ==
    LET st1 == IF Given(first) /\ Given(last) /\ Given(step)
               THEN ticks_setter(st, arange(first[1], last[1], step[1]))
               ELSE st
    IN  IF Given(first) /\ Given(last)
        THEN limits_setter(st1, first[1], last[1])
        ELSE st1

\* Lines 341-344.
automatic_formatter(st) ==
    IF st.ax.name = "polar" /\ st.ax.coordaxis = "x"
    THEN set_major_formatter(st, "theta")
    ELSE set_major_formatter(st, "scalar")

\* Mutant: a full turn is any sequence of ticks that ends at 2*pi.
automatic_full_turn_end_only(ticks) == isclose(ticks[Len(ticks)], TwoPi)

\* Line 353: ticks[0] == 0 and np.isclose(ticks[-1], 2 * np.pi).
automatic_full_turn(ticks) == ticks[1] = 0 /\ isclose(ticks[Len(ticks)], TwoPi)

\* Lines 346-364: the polar suppression rules on the realized ticks.
automatic_polar(st, auto) ==
    LET st1    == canvas_draw(st)
        ticks  == ticks_getter(st1.ax, auto)
        labels == label_texts(st1.ax, ticks)
        st2    == [ax  |-> st1.ax,
                   log |-> st1.log \o <<Entry("get_ticks", ticks),
                                        Entry("get_ticklabels", labels)>>]
    IN  IF st.ax.coordaxis \notin {"x", "y"} THEN Finish(st2, "True")
        ELSE IF Len(ticks) = 0 THEN Finish(st2, "IndexError")
        ELSE IF st.ax.coordaxis = "x"
        THEN (IF automatic_full_turn(ticks)
              THEN Finish(labels_setter(ticks_setter(st2, DropLast(ticks)),
                                        DropLast(labels)), "True")
              ELSE Finish(st2, "True"))
        ELSE Finish(labels_setter(ticks_setter(st2, ticks),
                                  Blank(labels, ticks[1] = 0)), "True")

\* Lines 333-364.
limit_automatic(st, first, last, step, auto) ==
    IF Given(first) /\ Given(last) /\ Given(step) /\ step[1] = 0
    THEN Finish(st, "ArangeError")
    ELSE LET st3 == automatic_formatter(automatic_requests(st, first, last, step))
         IN  IF st.ax.name = "polar" THEN automatic_polar(st3, auto)
             ELSE Finish(st3, "True")

\* Mutant: the entry guard does not look at the kind of the axes.
limit_guards_every_z(a, coordaxis, symbolic, s, v, first, last, step, auto) ==
    LET st == [ax |-> a, log |-> <<>>]
    IN  IF coordaxis = "z" THEN Finish(st, "False")
        ELSE IF symbolic THEN limit_symbolic(st, s, v, first, last, step)
        ELSE limit_automatic(st, first, last, step, auto)

\* Lines 284-366.
limit(a, coordaxis, symbolic, s, v, first, last, step, auto) ==
    LET st == [ax |-> a, log |-> <<>>]
    IN  IF coordaxis = "z" /\ a.name # "3d" THEN Finish(st, "False")
        ELSE IF symbolic THEN limit_symbolic(st, s, v, first, last, step)
        ELSE limit_automatic(st, first, last, step, auto)

(***************************************************************************)
(* Calls of limit on one axes, with arguments from small sets.             *)
(***************************************************************************)
Range(first, last, step) == [first |-> first, last |-> last, step |-> step]

\* Complete ranges: a full turn, a full turn that starts almost at 0,
\* ranges that step does not divide, an empty range and a step of 0.
FullRanges ==
    {Range(<<0>>, <<TwoPi>>, <<Grid>>), Range(<<1>>, <<TwoPi>>, <<Grid>>),
     Range(<<Fine>>, <<TwoPi>>, <<Grid>>),
     Range(<<0>>, <<3 * Fine>>, <<Grid>>), Range(<<Fine>>, <<3 * Fine>>, <<Grid>>),
     Range(<<0>>, <<-TwoPi>>, <<Grid>>), Range(<<0>>, <<TwoPi>>, <<0>>)}

\* Ranges with omitted values: no step, no first, nothing.
PartRanges ==
    {Range(<<0>>, <<TwoPi>>, <<>>), Range(<<Fine>>, <<3 * Fine>>, <<>>),
     Range(<<>>, <<TwoPi>>, <<Grid>>), Range(<<>>, <<>>, <<>>)}

Ranges == FullRanges \cup PartRanges

LimSymbols == {<<"\\pi">>, <<"\\pi", "/", "\\gamma">>}

LimVals == {1, 2}

\* What the host's automatic locator may yield.
AutoTicks == {<<0, Fine, 2 * Fine>>, <<Fine, 2 * Fine, 3 * Fine>>,
              <<0, Grid, TwoPi>>}

\* The calls: s and v keep their defaults where the call does not read them
\* (in automatic mode, and in symbolic mode without first, last or step) and
\* at most one of them differs from its default; the host's automatic choice
\* is open only where the call reads it.
Calls(a) ==
    {c \in [symbolic : BOOLEAN, s : LimSymbols, v : LimVals, range : Ranges,
            auto : AutoTicks] :
        /\ (c.symbolic /\ c.range \in FullRanges) \/ (c.s = <<"\\pi">> /\ c.v = 1)
        /\ c.s = <<"\\pi">> \/ c.v = 1
        /\ (~c.symbolic /\ a.name = "polar" /\ ~a.ticks_fixed
            /\ c.range \in PartRanges)
           \/ c.auto = <<0, Fine, 2 * Fine>>}

Init ==
    /\ lt = None
    /\ san = None
    /\ fix = None
    /\ pol = None
    /\ tab = None
    /\ gui = None
    /\ \E name \in AxesNames, coordaxis \in Coords : ax = new_axes(name, coordaxis)
    /\ call = [symbolic |-> FALSE, s |-> <<"\\pi">>, v |-> 1, first |-> <<>>,
               last |-> <<>>, step |-> <<>>, ret |-> None, log |-> <<>>,
               changed |-> FALSE, repeat |-> FALSE, kept |-> TRUE]

\* The tick labels an axes shows: the fixed labels, or the texts of its
\* formatter for its fixed ticks.
Shown(a) == IF a.formatter = "fixed" THEN a.labels ELSE label_texts(a, a.ticks)

\* The ticks a call read from the host, if it read any.
TicksRead(log) == {log[i].arg : i \in {j \in 1..Len(log) : log[j].op = "get_ticks"}}

\* One call of limit on the axes.  call keeps the arguments and the outcome
\* of the call, whether the axes changed (changed), whether the call
\* repeats the call before it (repeat: that call returned True and had the
\* same arguments, and the host's automatic ticks, where the two calls read
\* them, were the same), and whether the call left the ticks, the labels
\* shown and the limits as they were (kept).
Limit ==
    \E c \in Calls(ax) :
        LET r == limit(ax, ax.coordaxis, c.symbolic, c.s, c.v,
                       c.range.first, c.range.last, c.range.step, c.auto)
        IN  /\ ax' = r.ax
            /\ call' = [symbolic |-> c.symbolic, s |-> c.s, v |-> c.v,
                        first |-> c.range.first, last |-> c.range.last,
                        step |-> c.range.step, ret |-> r.ret, log |-> r.log,
                        changed |-> (r.ax # ax),
                        repeat |-> /\ call.ret = "True"
                                   /\ c.symbolic = call.symbolic
                                   /\ c.s = call.s /\ c.v = call.v
                                   /\ c.range = Range(call.first, call.last,
                                                      call.step)
                                   /\ \/ ax.ticks_fixed
                                      \/ TicksRead(r.log) = TicksRead(call.log),
                        kept |-> /\ r.ax.ticks = ax.ticks
                                 /\ r.ax.lims = ax.lims
                                 /\ Shown(r.ax) = Shown(ax)]
            /\ UNCHANGED <<lt, san, fix, pol, tab, gui>>

Next == Limit

Spec == Init /\ [][Next]_vars

(***************************************************************************)
(* Inputs of the direct calls of _labels_and_ticks.                        *)
(***************************************************************************)
Nums == -MaxNum..MaxNum

Steps == -1..MaxStep

Symbols == {<<"\\pi">>, <<"\\pi", "/", "\\gamma">>, <<"1">>,
            <<"1", "/", "\\gamma">>, <<"\\pi", "/", "1">>}

SymVals == {-1, 1, 2}

InitLT ==
    /\ lt \in [first : Nums, last : Nums, step : Steps, symbol : Symbols,
               symval : SymVals, pc : {"call"}, out : {None}]
    /\ ax = None
    /\ call = None
    /\ san = None
    /\ fix = None
    /\ pol = None
    /\ tab = None
    /\ gui = None

CallLabelsAndTicks ==
    /\ lt.pc = "call"
    /\ lt' = [lt EXCEPT !.pc = "done",
                        !.out = _labels_and_ticks(lt.first, lt.last, lt.step,
                                                  lt.symbol, lt.symval)]
    /\ UNCHANGED <<ax, call, san, fix, pol, tab, gui>>

NextLT == CallLabelsAndTicks

SpecLT == InitLT /\ [][NextLT]_vars

(***************************************************************************)
(* sanitise(y, maximum_diff).  y is a sequence of finite numbers (integers *)
(* here) held by the caller, and dtype is the type np.array(y) gives the   *)
(* copy it makes: "int" for a non-empty sequence of Python ints, "float"   *)
(* otherwise (an empty sequence becomes a float array).  The result says   *)
(* whether the call raised, which values the returned array holds, which   *)
(* of its entries are NaN, and what the caller's sequence holds afterwards.*)
(***************************************************************************)
DTypes == {"int", "float"}

\* np.r_[[0], np.diff(y)].
diff_with_zero(y) == [i \in 1..Len(y) |-> IF i = 1 THEN 0 ELSE y[i] - y[i - 1]]

\* np.abs(...) > maximum_diff.
points_of_discontinuity(y, maximum_diff) ==
    [i \in 1..Len(y) |-> Abs(diff_with_zero(y)[i]) > maximum_diff]

\* Lines 250-254.  y[mask] = np.nan converts NaN to the type of the array
\* before it looks at the mask: for an integer array that conversion raises
\* ValueError.  np.array(y) is a copy, so the assignment does not reach the
\* caller's sequence.
sanitise(y, dtype, maximum_diff) ==
    IF dtype = "int"
    THEN [raised |-> TRUE, values |-> <<>>, nan |-> <<>>, caller |-> y]
    ELSE [raised |-> FALSE, values |-> y,
          nan |-> points_of_discontinuity(y, maximum_diff), caller |-> y]

SanSeqs == UNION {[1..n -> 0..MaxVal] : n \in 0..MaxLen}

InitSan ==
    /\ san \in {s \in [y : SanSeqs, dtype : DTypes, maximum_diff : 0..MaxVal,
                       pc : {"call"}, out : {None}] :
                    s.dtype = "int" => Len(s.y) >= 1}
    /\ lt = None
    /\ ax = None
    /\ call = None
    /\ fix = None
    /\ pol = None
    /\ tab = None
    /\ gui = None

CallSanitise ==
    /\ san.pc = "call"
    /\ san' = [san EXCEPT !.pc = "done",
                          !.y = sanitise(san.y, san.dtype, san.maximum_diff).caller,
                          !.out = sanitise(san.y, san.dtype, san.maximum_diff)]
    /\ UNCHANGED <<lt, ax, call, fix, pol, tab, gui>>

NextSan == CallSanitise

SpecSan == InitSan /\ [][NextSan]_vars

(***************************************************************************)
(* graph_plot.py: graph_ticks(first, last, step), the older tick generator *)
(* (the unit is always pi), and CustomPlot.axis_fix, which works on the    *)
(* axes self.ax of a plot of dimension self.dim.  The numbers of axis_fix  *)
(* are written like those of limit; none is displaced.                     *)
(***************************************************************************)
\* Line 101: len(np.arange(first, last + step, step)) for step # 0.
graph_lattice_len(F, L, S) == Max(0, CeilDiv(L - F + S, S))

graph_lattice(F, L, S) == [i \in 1..graph_lattice_len(F, L, S) |-> F + (i - 1) * S]

\* Lines 107-148: the label of the coefficient C / Q.
graph_label(C) ==
    LET value == limit_denominator(C)
        num   == Abs(value.numerator)
        den   == value.denominator
    IN  IF value.numerator = 0 THEN <<"$", "0", "$">>
        ELSE <<"$">>
             \o (IF value.numerator < 0 THEN <<"-">> ELSE <<>>)
             \o (IF den # 1 THEN <<"\\frac{">> ELSE <<>>)
             \o (IF num = 1 THEN <<"\\pi">> ELSE format_int(num) \o <<"\\pi">>)
             \o (IF den # 1 THEN <<"}{">> \o format_int(den) \o <<"}", "$">>
                 ELSE <<"$">>)

\* Lines 74-150; the positions np.pi * lattice are in units of pi / Q.
graph_ticks(first, last, step) ==
    IF step = 0 THEN [raised |-> TRUE, labels |-> <<>>, ticks |-> <<>>]
    ELSE LET lattice == graph_lattice(first, last, step)
         IN  [raised |-> FALSE,
              labels |-> [i \in 1..Len(lattice) |-> graph_label(lattice[i])],
              ticks  |-> lattice]

\* The truth value Python gives an optional number: None and 0 are false.
Truthy(arg) == Given(arg) /\ arg[1] # 0

\* fr'${t.get_text()}$'.
math_mode(text) == <<"$">> \o text \o <<"$">>

\* Lines 269-272.
fix_requests(st, first, last, step) ==
    LET st1 == IF Truthy(first) /\ Truthy(last) /\ Truthy(step)
               THEN ticks_setter(st, graph_lattice(first[1], last[1], step[1]))
               ELSE st
    IN  IF Truthy(first) /\ Truthy(last)
        THEN limits_setter(st1, first[1], last[1])
        ELSE st1

\* Lines 253-262.
fix_trigonometric(st, first, last, step) ==
    IF ~(Given(first) /\ Given(last) /\ Given(step)) THEN Finish(st, "ValueError")
    ELSE LET g == graph_ticks(Coarse(first[1]), Coarse(last[1]), Coarse(step[1]))
         IN  IF g.raised THEN Finish(st, "ArangeError")
             ELSE Finish(limits_setter(
                             labels_setter(
                                 ticks_setter(st, [i \in 1..Len(g.ticks) |->
                                                     Fine * g.ticks[i]]),
                                 g.labels),
                             first[1], last[1]),
                         "return")

\* Lines 265-283.
fix_plain(st, first, last, step, auto) ==
    LET st1   == canvas_draw(fix_requests(st, first, last, step))
        texts == label_texts(st1.ax, ticks_getter(st1.ax, auto))
        st2   == [ax  |-> st1.ax,
                  log |-> Append(st1.log, Entry("get_ticklabels", texts))]
    IN  Finish(labels_setter(st2, [i \in 1..Len(texts) |-> math_mode(texts[i])]),
               "return")

\* Lines 227-283.  a is self.ax.
axis_fix(a, dim, axis, trigonometric, first, last, step, auto) ==
    LET st == [ax |-> a, log |-> <<>>]
    IN  IF ~(axis \in {"x", "y"} \/ (axis = "z" /\ dim = "3d"))
        THEN Finish(st, "return")
        ELSE IF trigonometric THEN fix_trigonometric(st, first, last, step)
        ELSE fix_plain(st, first, last, step, auto)

Dims == {"2d", "3d"}

\* Ranges with a bound of 0, with no 0, with a step of 0 and with omitted
\* values.
FixRanges ==
    {Range(<<0>>, <<TwoPi>>, <<Grid>>), Range(<<-TwoPi>>, <<0>>, <<Grid>>),
     Range(<<Grid>>, <<TwoPi>>, <<Grid>>), Range(<<Fine>>, <<TwoPi>>, <<Grid>>),
     Range(<<Grid>>, <<TwoPi>>, <<0>>), Range(<<Grid>>, <<TwoPi>>, <<>>),
     Range(<<0>>, <<TwoPi>>, <<>>), Range(<<>>, <<TwoPi>>, <<Grid>>),
     Range(<<>>, <<>>, <<>>)}

\* One call of axis_fix on the axes of a new plot.
InitFix ==
    /\ fix \in [dim : Dims, axis : Coords, trigonometric : BOOLEAN,
                 range : FixRanges, auto : AutoTicks, pc : {"call"},
                 ax : {None}, ret : {None}, log : {<<>>}]
    /\ lt = None
    /\ ax = None
    /\ call = None
    /\ san = None
    /\ pol = None
    /\ tab = None
    /\ gui = None

CallAxisFix ==
    /\ fix.pc = "call"
    /\ LET a == new_axes(IF fix.dim = "3d" THEN "3d" ELSE "rectilinear", fix.axis)
           r == axis_fix(a, fix.dim, fix.axis, fix.trigonometric, fix.range.first,
                         fix.range.last, fix.range.step, fix.auto)
       IN  fix' = [fix EXCEPT !.pc = "done", !.ax = r.ax, !.ret = r.ret,
                              !.log = r.log]
    /\ UNCHANGED <<lt, ax, call, san, pol, tab, gui>>

NextFix == CallAxisFix

SpecFix == InitFix /\ [][NextFix]_vars

(***************************************************************************)
(* polish(ax, ...) and the resize callback _draw_polar_patches.  pol holds *)
(* the figures with their axes (the kind of each, whether polish has       *)
(* labelled it, and how many arrow patches marked with the figure's id it  *)
(* carries), the keys of the global dictionary _gid, how many times the    *)
(* callback is connected to the resize event of each figure's canvas, the  *)
(* number of polish calls made, and whether a callback failed to find its  *)
(* figure in _gid.                                                         *)
(***************************************************************************)
Figs == {"fig1", "fig2"}

has_polar(axes) == \E i \in 1..Len(axes) : axes[i].name = "polar"

\* Mutant: the callback is connected whenever the figure has a polar axes.
polish_connects_every_time(p, f, i) ==
    LET q == [p EXCEPT !.axes[f][i].polished = TRUE, !.calls = @ + 1]
    IN  IF has_polar(p.axes[f])
        THEN [q EXCEPT !.gid = @ \cup {f}, !.connected[f] = @ + 1]
        ELSE q

\* Lines 370-450: polish of the i-th axes of figure f.  Lines 429-437: the
\* figure is keyed in _gid and the callback is connected.
polish(p, f, i) ==
    LET q == [p EXCEPT !.axes[f][i].polished = TRUE, !.calls = @ + 1]
    IN  IF has_polar(p.axes[f]) /\ f \notin p.gid
        THEN [q EXCEPT !.gid = @ \cup {f}, !.connected[f] = @ + 1]
        ELSE q

\* Lines 153-230: one run of the callback for figure f.  For every polar
\* axes it looks the figure up in _gid (line 185), removes the patches that
\* carry the id and adds two.
_draw_polar_patches(p, f) ==
    IF ~has_polar(p.axes[f]) THEN p
    ELSE IF f \notin p.gid THEN [p EXCEPT !.error = TRUE]
    ELSE [p EXCEPT !.axes[f] =
             [i \in 1..Len(@) |->
                 IF @[i].name = "polar" THEN [@[i] EXCEPT !.patches = 2] ELSE @[i]]]

InitPol ==
    /\ pol = [axes |-> [f \in Figs |-> <<>>], gid |-> {},
              connected |-> [f \in Figs |-> 0], calls |-> 0, error |-> FALSE]
    /\ lt = None
    /\ ax = None
    /\ call = None
    /\ san = None
    /\ fix = None
    /\ tab = None
    /\ gui = None

\* fig.add_subplot(..., projection=...).
AddAxes ==
    \E f \in Figs, name \in AxesNames :
        /\ Len(pol.axes["fig1"]) + Len(pol.axes["fig2"]) < MaxAxes
        /\ pol' = [pol EXCEPT !.axes[f] =
                       Append(@, [name |-> name, polished |-> FALSE, patches |-> 0])]
        /\ UNCHANGED <<lt, ax, call, san, fix, tab, gui>>

Polish ==
    \E f \in Figs :
        \E i \in 1..Len(pol.axes[f]) :
            /\ pol.calls < MaxPolish
            /\ pol' = polish(pol, f, i)
            /\ UNCHANGED <<lt, ax, call, san, fix, tab, gui>>

\* A resize event of the canvas of a figure runs every connected callback.
Resize ==
    \E f \in Figs :
        /\ pol.connected[f] > 0
        /\ pol' = _draw_polar_patches(pol, f)
        /\ UNCHANGED <<lt, ax, call, san, fix, tab, gui>>

NextPol == AddAxes \/ Polish \/ Resize

SpecPol == InitPol /\ [][NextPol]_vars

(***************************************************************************)
(* The titles of the notebook tabs in _Interactive.__init__ (lines         *)
(* 628-652).  A title is a sequence of characters; "..." stands for the    *)
(* single character U+2026 the loop inserts.  tab holds the titles, the    *)
(* width of the window as winfo_width() reports it, and the position of    *)
(* the constructor: in the loop, or past it with the tab texts set.        *)
(***************************************************************************)
Chars == {" ", "m"}
Ellipsis == "..."
untitled == <<"<", "u", "n", "t", "i", "t", "l", "e", "d", ">">>

\* tkfont.Font(...).measure of one character of a proportional font: a
\* narrow one, a wide one, and everything else in between.
char_measure(c) == CASE c \in {" ", "i", "l", "t"} -> 1 [] c = "m" -> 3 [] OTHER -> 2

RECURSIVE measurer(_)
measurer(title) ==
    IF title = <<>> THEN 0 ELSE char_measure(Head(title)) + measurer(Tail(title))

RECURSIVE sum_measures(_)
sum_measures(titles) ==
    IF titles = <<>> THEN 0 ELSE measurer(Head(titles)) + sum_measures(Tail(titles))

\* title[: k] and title[k :] of Python, k possibly negative.
slice_to(title, k) ==
    IF k >= 0 THEN SubSeq(title, 1, Min(k, Len(title)))
    ELSE SubSeq(title, 1, Max(0, Len(title) + k))
slice_from(title, k) == SubSeq(title, k + 1, Len(title))

isspace(title) == title # <<>> /\ \A i \in 1..Len(title) : title[i] = " "

\* Lines 628-634.
tab_title(title) == IF title = <<>> \/ isspace(title) THEN untitled ELSE title

\* Line 644: sum(measures) > width, with width = winfo_width() * 0.9.
too_wide(titles, winfo_width) == 10 * sum_measures(titles) > 9 * winfo_width

\* Line 645: measures.index(max(measures)).
widest(titles) ==
    CHOOSE i \in 1..Len(titles) :
        /\ \A j \in 1..Len(titles) : measurer(titles[j]) <= measurer(titles[i])
        /\ \A j \in 1..(i - 1) : measurer(titles[j]) < measurer(titles[i])

\* Lines 646-647.
truncated(title) ==
    LET halfway == Len(title) \div 2
    IN  slice_to(title, halfway - 1) \o <<Ellipsis>> \o slice_from(title, halfway + 2)

RawTitles == UNION {[1..n -> Chars] : n \in 0..MaxTitle}

InitTab ==
    /\ \E n \in 1..MaxTabs :
         \E raw \in [1..n -> RawTitles], w \in 1..MaxWinWidth :
             tab = [titles |-> [i \in 1..n |-> tab_title(raw[i])],
                    winfo_width |-> w, pc |-> "while", text |-> <<>>]
    /\ lt = None
    /\ ax = None
    /\ call = None
    /\ san = None
    /\ fix = None
    /\ pol = None
    /\ gui = None

\* Lines 644-648: one iteration of the loop.
Truncate ==
    /\ tab.pc = "while"
    /\ too_wide(tab.titles, tab.winfo_width)
    /\ tab' = [tab EXCEPT !.titles[widest(tab.titles)] = truncated(@)]
    /\ UNCHANGED <<lt, ax, call, san, fix, pol, gui>>

\* Lines 644 and 650-652: the loop ends and the tabs get their texts.
SetTabs ==
    /\ tab.pc = "while"
    /\ ~too_wide(tab.titles, tab.winfo_width)
    /\ tab' = [tab EXCEPT !.pc = "done", !.text = tab.titles]
    /\ UNCHANGED <<lt, ax, call, san, fix, pol, gui>>

NextTab == Truncate \/ SetTabs

\* The constructor runs in one thread that nothing stops.
SpecTab == InitTab /\ [][NextTab]_vars /\ WF_vars(NextTab)

(***************************************************************************)
(* show(fig) with its options window (lines 661-695 and 746-827).  With a  *)
(* Tk backend the window lives in the main process and its handlers apply  *)
(* the data themselves; otherwise the window runs in a second process and  *)
(* hands the data over through a queue.  gui holds the backend, whether    *)
(* the figure still exists, whether the second process is alive, the       *)
(* queue, the number of widget events so far, for each process its         *)
(* position, the data it is applying and the coordinate axis it has got    *)
(* to, the invocations of limit in progress, and the data applied so far   *)
(* (which message, by which function, in which process).                   *)
(***************************************************************************)
TkBackends == {"TkAgg", "TkCairo"}
Backends == TkBackends \cup {"Qt5Agg"}
Procs == {"main", "gui"}
CoordAxes == <<"x", "y", "z">>

\* The coordinate axes whose 'Limits' entry evaluates to three numbers.
LimitEntries == {{}, {"y"}, {"x", "y", "z"}}

\* What a process holds while it applies nothing.
NoData == [kind |-> "none", n |-> 0, limits |-> {}]

\* Where a process waits for events.
Home(g, P) == IF P = "main" /\ g.backend \notin TkBackends THEN "while" ELSE "mainloop"

\* Entry of _set_axes_data or _set_text_data in process P.
set_data(g, P, data) ==
    [g EXCEPT !.pc[P] = IF data.kind = "tuple" THEN "_set_text_data" ELSE "_set_axes_data",
              !.cur[P] = data, !.k[P] = 1]

\* Mutant: the handler applies the data itself whatever the backend.
put_axes_data_itself(g, P, data) == set_data(g, P, data)

\* Lines 661-670, run in process P.
put_axes_data(g, P, data) ==
    IF g.backend \in TkBackends THEN set_data(g, P, data)
    ELSE [g EXCEPT !.queue = Append(@, data)]

\* Lines 673-683, run in process P.
put_text_data(g, P, data) ==
    IF g.backend \in TkBackends THEN set_data(g, P, data)
    ELSE [g EXCEPT !.queue = Append(@, data)]

InitGui ==
    /\ \E b \in Backends :
         gui = [backend |-> b, exists |-> TRUE, alive |-> b \notin TkBackends,
                queue |-> <<>>, events |-> 0,
                pc |-> [P \in Procs |->
                          IF P = "main" THEN (IF b \in TkBackends THEN "mainloop" ELSE "while")
                          ELSE (IF b \in TkBackends THEN "none" ELSE "mainloop")],
                cur |-> [P \in Procs |-> NoData], k |-> [P \in Procs |-> 0],
                running |-> {}, applied |-> <<>>]
    /\ lt = None
    /\ ax = None
    /\ call = None
    /\ san = None
    /\ fix = None
    /\ pol = None
    /\ tab = None

\* The process whose main loop serves the options window.
Handler == IF gui.backend \in TkBackends THEN "main" ELSE "gui"

\* A check button is toggled or an entry of the upper part loses the focus.
AxesEvent ==
    \E limits \in LimitEntries :
        /\ gui.events < MaxEvents
        /\ gui.exists
        /\ gui.pc[Handler] = "mainloop"
        /\ gui' = put_axes_data([gui EXCEPT !.events = @ + 1], Handler,
                       [kind |-> "dict", n |-> gui.events + 1, limits |-> limits])
        /\ UNCHANGED <<lt, ax, call, san, fix, pol, tab>>

\* An entry of the lower part loses the focus.
TextEvent ==
    /\ gui.events < MaxEvents
    /\ gui.exists
    /\ gui.pc[Handler] = "mainloop"
    /\ gui' = put_text_data([gui EXCEPT !.events = @ + 1], Handler,
                   [kind |-> "tuple", n |-> gui.events + 1, limits |-> {}])
    /\ UNCHANGED <<lt, ax, call, san, fix, pol, tab>>

\* Line 811: while plt.fignum_exists(fig.number).
While ==
    /\ gui.pc["main"] = "while"
    /\ gui' = [gui EXCEPT !.pc["main"] = IF gui.exists THEN "start_event_loop" ELSE "terminate"]
    /\ UNCHANGED <<lt, ax, call, san, fix, pol, tab>>

\* The user closes the figure, which the main process notices while it runs
\* the event loop of the canvas.
Close ==
    /\ gui.exists
    /\ gui.pc["main"] \in {"start_event_loop", "mainloop"}
    /\ gui' = [gui EXCEPT !.exists = FALSE,
                          !.pc["main"] = IF @ = "mainloop" THEN "terminate" ELSE @]
    /\ UNCHANGED <<lt, ax, call, san, fix, pol, tab>>

\* Lines 812-820: the event loop returns; an empty queue sends the loop
\* round again, otherwise one message is taken and its kind decides.
Get ==
    /\ gui.pc["main"] = "start_event_loop"
    /\ gui' = IF gui.queue = <<>> THEN [gui EXCEPT !.pc["main"] = "while"]
              ELSE set_data([gui EXCEPT !.queue = Tail(@)], "main", Head(gui.queue))
    /\ UNCHANGED <<lt, ax, call, san, fix, pol, tab>>

\* Lines 732-743.
SetTextData ==
    \E P \in Procs :
        /\ gui.pc[P] = "_set_text_data"
        /\ gui' = [gui EXCEPT !.pc[P] = Home(gui, P), !.cur[P] = NoData, !.k[P] = 0,
                              !.applied = Append(@, [n |-> gui.cur[P].n,
                                                     by |-> "_set_text_data", proc |-> P])]
        /\ UNCHANGED <<lt, ax, call, san, fix, pol, tab>>

\* Lines 702-725: the next coordinate axis; limit is entered when its
\* 'Limits' entry evaluates, and skipped otherwise.
LimitEnter ==
    \E P \in Procs :
        /\ gui.pc[P] = "_set_axes_data"
        /\ gui.k[P] <= Len(CoordAxes)
        /\ gui' = IF CoordAxes[gui.k[P]] \in gui.cur[P].limits
                  THEN [gui EXCEPT !.pc[P] = "limit",
                                   !.running = @ \cup {[proc |-> P, n |-> gui.cur[P].n,
                                                        coordaxis |-> CoordAxes[gui.k[P]]]}]
                  ELSE [gui EXCEPT !.k[P] = @ + 1]
        /\ UNCHANGED <<lt, ax, call, san, fix, pol, tab>>

\* limit returns to _set_axes_data.
LimitReturn ==
    \E P \in Procs :
        /\ gui.pc[P] = "limit"
        /\ gui' = [gui EXCEPT !.pc[P] = "_set_axes_data", !.k[P] = @ + 1,
                              !.running = {r \in @ : r.proc # P}]
        /\ UNCHANGED <<lt, ax, call, san, fix, pol, tab>>

\* Lines 727-728: the three coordinate axes are done.
SetAxesData ==
    \E P \in Procs :
        /\ gui.pc[P] = "_set_axes_data"
        /\ gui.k[P] > Len(CoordAxes)
        /\ gui' = [gui EXCEPT !.pc[P] = Home(gui, P), !.cur[P] = NoData, !.k[P] = 0,
                              !.applied = Append(@, [n |-> gui.cur[P].n,
                                                     by |-> "_set_axes_data", proc |-> P])]
        /\ UNCHANGED <<lt, ax, call, san, fix, pol, tab>>

\* Lines 822-827.
Terminate ==
    /\ gui.pc["main"] = "terminate"
    /\ gui' = [gui EXCEPT !.pc["main"] = "end", !.alive = FALSE,
                          !.pc["gui"] = IF gui.alive THEN "end" ELSE @,
                          !.running = {r \in @ : r.proc # "gui"}]
    /\ UNCHANGED <<lt, ax, call, san, fix, pol, tab>>

NextGui ==
    \/ AxesEvent
    \/ TextEvent
    \/ While
    \/ Close
    \/ Get
    \/ SetTextData
    \/ LimitEnter
    \/ LimitReturn
    \/ SetAxesData
    \/ Terminate

SpecGui == InitGui /\ [][NextGui]_vars

(***************************************************************************)
(* Properties of limit, checked under Spec.                                *)
(***************************************************************************)

\* The positions in the log of the last call of the calls of one accessor.
At(op) == {i \in 1..Len(call.log) : call.log[i].op = op}

IsWrite(e) == e.op \in {"set_ticks", "set_ticklabels", "set_lim"}

\* The accessors of the writes of the last call, in the order of the calls.
WriteOps ==
    LET w == SelectSeq(call.log, IsWrite)
    IN  [i \in 1..Len(w) |-> w[i].op]

\* C1: a symbolic call with first, last and step writes the ticks, then the
\* tick labels, then the limits, and nothing else of the three; the limits
\* written are (v*first, v*last).  A symbolic call that does not complete
\* writes none of them.
C1_SymbolicOrder ==
    call.symbolic =>
        \/ /\ call.ret = "True"
           /\ WriteOps = <<"set_ticks", "set_ticklabels", "set_lim">>
           /\ \A i \in At("set_lim") :
                 call.log[i].arg = <<call.v * call.first[1], call.v * call.last[1]>>
           /\ ax.lims = <<call.v * call.first[1], call.v * call.last[1]>>
        \/ /\ call.ret # "True"
           /\ WriteOps = <<>>

\* A symbolic call has installed ticks of which the last lies beyond last.
C1_Witness ==
    /\ call.symbolic /\ call.ret = "True"
    /\ Len(ax.ticks) >= 2
    /\ ax.ticks[Len(ax.ticks)] > ax.lims[2]

Guarded == ax.coordaxis = "z" /\ ax.name # "3d"

\* The last call was given first, last and step.
AllGiven == Given(call.first) /\ Given(call.last) /\ Given(call.step)

\* C11: limit returns False exactly when coordaxis is 'z' and the axes is not
\* a 3d axes, and such a call calls no accessor of the axes (it reads and
\* writes no ticks, labels, limits or formatter) and leaves the axes as it
\* was, whatever its other arguments; every other call returns True or
\* leaves by an exception.
C11_EntryGuard ==
    call.ret # None =>
        /\ (call.ret = "False") <=> Guarded
        /\ call.ret = "False" => (call.log = <<>> /\ ~call.changed)
        /\ call.ret \in {"True", "False", "ValueError", "ArangeError", "IndexError"}

\* A symbolic call without first on the z coordinate of an axes that is not
\* 3d has returned False.
C11_Witness ==
    /\ call.ret = "False"
    /\ call.symbolic /\ ~Given(call.first)
    /\ Guarded

\* C12: a symbolic call to which the entry guard does not apply and that
\* lacks first, last or step raises ValueError, has called no accessor of
\* the axes and leaves the axes as it was.
C12_SymbolicNeedsRange ==
    (call.symbolic /\ ~AllGiven /\ ~Guarded) =>
        /\ call.ret = "ValueError"
        /\ call.log = <<>>
        /\ ~call.changed

\* A symbolic call with first and last but no step has raised ValueError.
C12_Witness ==
    /\ call.symbolic /\ ~Guarded
    /\ Given(call.first) /\ Given(call.last) /\ ~Given(call.step)
    /\ call.ret = "ValueError"

\* C13 (as claimed): a call with first, last and step = 0 is rejected by the
\* argument check of limit (the ValueError of an invalid argument), before
\* the lattice is built and before any write to the axes.
C13_StepValidated ==
    (call.ret # None /\ AllGiven /\ ~Guarded) =>
        (call.step[1] = 0 => (call.ret = "ValueError" /\ call.log = <<>>))

\* The number of lattice points first + k * step below last + step / 2 of
\* the last call (step > 0), and the position of the i-th of them.
CallCount ==
    LET F == Coarse(call.first[1])
        L == Coarse(call.last[1])
        S == Coarse(call.step[1])
    IN  Cardinality({k \in 0..(Abs(L - F) + 1) : 2 * (F + k * S) < 2 * L + S})

CallTick(i) == call.v * (call.first[1] + (i - 1) * call.step[1])

\* The last call was a symbolic call on the given coordinate of a polar axes
\* that returned True.
SymbolicPolarDone(coordaxis) ==
    /\ call.symbolic /\ call.ret = "True"
    /\ ax.name = "polar" /\ ax.coordaxis = coordaxis

\* C14 (as claimed): a symbolic call on the angular coordinate of a polar
\* axes drops the last (label, tick) pair exactly if first is 0 and last is
\* 2 (times the unit value v).
C14_Original ==
    SymbolicPolarDone("x") =>
        Len(ax.ticks) = IF call.first[1] = 0 /\ call.last[1] = 2 * Grid
                        THEN CallCount - 1
                        ELSE CallCount

\* C14 (amended): a symbolic call on the angular coordinate of a polar axes
\* drops the last (label, tick) pair exactly if first is 0 and last * v is
\* 2*pi (up to the tolerance of isclose), and drops nothing otherwise: the
\* ticks and labels installed are the first CallCount - 1, or all CallCount,
\* lattice points in order.
C14_FullTurn ==
    SymbolicPolarDone("x") =>
        LET turn == call.first[1] = 0
                    /\ Coarse(call.v * call.last[1]) = Coarse(TwoPi)
            n    == IF turn THEN CallCount - 1 ELSE CallCount
        IN  /\ Len(ax.ticks) = n
            /\ Len(ax.labels) = n
            /\ \A i \in 1..n : ax.ticks[i] = CallTick(i)
            /\ \A i \in At("set_ticks") : call.log[i].arg = ax.ticks
            /\ \A i \in At("set_ticklabels") : call.log[i].arg = ax.labels

\* A range from 0 to 2 in units of pi has installed two of its three ticks,
\* and not the one at 2*pi.
C14_Witness ==
    /\ SymbolicPolarDone("x")
    /\ call.first[1] = 0 /\ call.v = 1 /\ call.last[1] = 2 * Grid
    /\ CallCount = 3
    /\ ax.ticks = <<0, Grid>>

\* C15: a symbolic call on the radial coordinate of a polar axes that
\* returns has installed every lattice point as a tick, in order, and as
\* many labels; the last label is blank, the first label is blank exactly
\* if first is 0, and no other label is blank.  A call that does not return
\* has written nothing.
C15_Radial ==
    (call.symbolic /\ ax.name = "polar" /\ ax.coordaxis = "y") =>
        \/ /\ call.ret = "True"
           /\ CallCount >= 1
           /\ Len(ax.ticks) = CallCount
           /\ Len(ax.labels) = CallCount
           /\ \A i \in 1..CallCount :
                 /\ ax.ticks[i] = CallTick(i)
                 /\ (ax.labels[i] = <<>>) <=>
                        (i = CallCount \/ (i = 1 /\ call.first[1] = 0))
           /\ \A i \in At("set_ticks") : call.log[i].arg = ax.ticks
           /\ \A i \in At("set_ticklabels") : call.log[i].arg = ax.labels
        \/ /\ call.ret \in {"ValueError", "ArangeError", "IndexError"}
           /\ call.log = <<>>
           /\ ~call.changed

\* A radial range that does not start at 0 keeps its first label and has its
\* last label blank.
C15_Witness ==
    /\ SymbolicPolarDone("y")
    /\ call.first[1] # 0
    /\ Len(ax.labels) >= 2
    /\ ax.labels[1] # <<>>
    /\ ax.labels[Len(ax.labels)] = <<>>

\* C16 (as claimed): the tests for the start of a full turn are approximate
\* as the tests for its end are: a symbolic range whose first is within the
\* tolerance of 0 and whose last * v is within the tolerance of 2*pi loses
\* its last (label, tick) pair, and so do automatic ticks read back whose
\* first is within the tolerance of 0 and whose last is within the tolerance
\* of 2*pi.
C16_ApproximateStart ==
    /\ (SymbolicPolarDone("x") /\ isclose(call.first[1], 0)
        /\ isclose(call.v * call.last[1], TwoPi))
           => Len(ax.ticks) = CallCount - 1
    /\ (~call.symbolic /\ call.ret = "True" /\ ax.name = "polar"
        /\ ax.coordaxis = "x")
           => \A g \in At("get_ticks") :
                 LET ticks == call.log[g].arg
                 IN  (Len(ticks) > 0 /\ isclose(ticks[1], 0)
                      /\ isclose(ticks[Len(ticks)], TwoPi))
                        => ax.ticks = DropLast(ticks)

\* The last call was an automatic call that got past the entry guard and
\* past np.arange.
AutomaticRan == ~call.symbolic /\ call.ret \in {"True", "IndexError"}

AutoTick(i) == call.first[1] + (i - 1) * call.step[1]

\* C17 (as claimed): an automatic call writes ticks exactly if first, last
\* and step are all supplied and limits exactly if first and last are.
C17_Original ==
    AutomaticRan =>
        /\ At("set_ticks") # {} <=> AllGiven
        /\ At("set_lim") # {} <=> (Given(call.first) /\ Given(call.last))

\* C17 (amended): before it sets the formatter, an automatic call writes the
\* ticks first, first + step, ... below last + step / 2 exactly if first,
\* last and step are all supplied, and the limits (first, last) exactly if
\* first and last are, 0 being a supplied value; a ticks write after the
\* formatter is set occurs on a polar axes only, after the canvas draw.
C17_Requests ==
    AutomaticRan =>
        /\ Cardinality(At("set_major_formatter")) = 1
        /\ \A f \in At("set_major_formatter") :
              /\ (\E i \in At("set_ticks") : i < f) <=> AllGiven
              /\ \A i \in At("set_ticks") :
                    IF i < f
                    THEN /\ Len(call.log[i].arg) = CallCount
                         /\ \A k \in 1..CallCount : call.log[i].arg[k] = AutoTick(k)
                    ELSE /\ ax.name = "polar"
                         /\ \E d \in At("draw") : f < d /\ d < i
              /\ At("set_lim") # {} <=> (Given(call.first) /\ Given(call.last))
              /\ \A i \in At("set_lim") :
                    /\ i < f
                    /\ call.log[i].arg = <<call.first[1], call.last[1]>>

\* An automatic call with first = 0 has written the ticks 0, pi, 2*pi and
\* the limits (0, 2*pi).
C17_Witness ==
    /\ ~call.symbolic /\ call.ret = "True"
    /\ call.first = <<0>> /\ AllGiven
    /\ Len(call.log) >= 2
    /\ call.log[1] = Entry("set_ticks", <<0, Grid, TwoPi>>)
    /\ call.log[2] = Entry("set_lim", <<0, TwoPi>>)

\* s wrapped as a symbolic string.
Wrapped(s) == <<"$">> \o s \o <<"$">>

\* C18 (as claimed): every automatic call that returns has drawn the canvas
\* after it wrote the limits and before it read the label texts, and every
\* label it installed is a text it read, wrapped as a symbolic string.
C18_Original ==
    (~call.symbolic /\ call.ret = "True") =>
        /\ At("draw") # {}
        /\ At("get_ticklabels") # {}
        /\ \A d \in At("draw") :
              /\ \A i \in At("set_lim") : i < d
              /\ \A g \in At("get_ticklabels") : d < g
        /\ \A w \in At("set_ticklabels") : \E g \in At("get_ticklabels") :
              /\ g < w
              /\ Len(call.log[w].arg) = Len(call.log[g].arg)
              /\ \A k \in 1..Len(call.log[w].arg) :
                    call.log[w].arg[k] = Wrapped(call.log[g].arg[k])

\* The text the formatter an automatic call installs gives a tick.
FormatterText(tick) ==
    IF ax.coordaxis = "x" THEN theta_text(tick) ELSE scalar_text(tick)

\* C18 (amended): an automatic call on a polar axes draws the canvas once,
\* after its ticks and limits requests and after it set the formatter, and
\* reads the ticks and the label texts once, after the draw; the texts are
\* the plain texts of the formatter; every label it then installs is the
\* text it read, unchanged, or blank.  An automatic call on another axes
\* draws nothing, reads nothing and installs no label: it leaves the labels
\* to the ScalarFormatter it set.
C18_PolarFlush ==
    AutomaticRan =>
        IF ax.name = "polar"
        THEN /\ Cardinality(At("draw")) = 1
             /\ Cardinality(At("get_ticks")) = 1
             /\ Cardinality(At("get_ticklabels")) = 1
             /\ \A d \in At("draw") :
                   /\ \A i \in At("set_lim") \cup At("set_major_formatter") : i < d
                   /\ \A g \in At("get_ticks"), h \in At("get_ticklabels") :
                         /\ d < g /\ d < h
                         /\ Len(call.log[h].arg) = Len(call.log[g].arg)
                         /\ \A k \in 1..Len(call.log[h].arg) :
                               call.log[h].arg[k] = FormatterText(call.log[g].arg[k])
                         /\ \A w \in At("set_ticklabels") :
                               /\ h < w
                               /\ Len(call.log[w].arg) <= Len(call.log[h].arg)
                               /\ \A k \in 1..Len(call.log[w].arg) :
                                     call.log[w].arg[k] \in {call.log[h].arg[k], <<>>}
        ELSE /\ At("draw") = {} /\ At("get_ticks") = {}
             /\ At("get_ticklabels") = {} /\ At("set_ticklabels") = {}
             /\ ax.formatter = "scalar" /\ ax.labels = <<>>

\* An automatic call on the radial coordinate of a polar axes has installed
\* the text of the ScalarFormatter as the label of its second tick.
C18_Witness ==
    /\ ~call.symbolic /\ call.ret = "True"
    /\ ax.name = "polar" /\ ax.coordaxis = "y"
    /\ At("draw") # {}
    /\ Len(ax.labels) >= 3
    /\ ax.labels[2] = scalar_text(ax.ticks[2])
    /\ ax.labels[2] # <<>>

\* C19: an automatic call on a polar axes decides from the ticks it reads
\* back after the draw, which are the ticks the axis holds then (those the
\* call requested, if it requested any).  On the angular coordinate it
\* installs all but the last tick and text exactly if the first tick read is
\* 0 and the last is 2*pi up to the tolerance of isclose, and otherwise
\* installs nothing; on the radial coordinate it installs the ticks read
\* and their texts with the last one blank and the first one blank exactly
\* if the first tick read is 0.  If no tick is read back the call raises
\* IndexError and installs nothing.
C19_Realized ==
    (AutomaticRan /\ ax.name = "polar" /\ ax.coordaxis \in {"x", "y"}) =>
        \A g \in At("get_ticks"), h \in At("get_ticklabels") :
            LET ticks  == call.log[g].arg
                texts  == call.log[h].arg
                n      == Len(ticks)
                after  == {w \in At("set_ticks") \cup At("set_ticklabels") : w > g}
            IN  /\ \A i \in At("set_ticks") : i < g => ticks = call.log[i].arg
                /\ call.ret = "IndexError" <=> n = 0
                /\ n = 0 => after = {}
                /\ (n > 0 /\ ax.coordaxis = "x") =>
                      IF ticks[1] = 0 /\ Coarse(ticks[n]) = Coarse(TwoPi)
                      THEN /\ after # {}
                           /\ ax.ticks = DropLast(ticks)
                           /\ ax.labels = DropLast(texts)
                      ELSE /\ after = {}
                           /\ ax.formatter = "theta"
                /\ (n > 0 /\ ax.coordaxis = "y") =>
                      /\ ax.ticks = ticks
                      /\ Len(ax.labels) = n
                      /\ \A k \in 1..n :
                            ax.labels[k] = IF k = n \/ (k = 1 /\ ticks[1] = 0)
                                           THEN <<>>
                                           ELSE texts[k]

\* An automatic call without first, last and step has dropped the tick at
\* 2*pi of the ticks it read back.
C19_Witness ==
    /\ ~call.symbolic /\ call.ret = "True"
    /\ ~Given(call.first) /\ ~Given(call.last) /\ ~Given(call.step)
    /\ ax.name = "polar" /\ ax.coordaxis = "x"
    /\ \E g \in At("get_ticks") : call.log[g].arg = <<0, Grid, TwoPi>>
    /\ ax.ticks = <<0, Grid>>

\* The installed ticks that lie within the limits in force.
Materialized ==
    Cardinality({i \in 1..Len(ax.ticks) :
                    ax.lims[1] <= ax.ticks[i] /\ ax.ticks[i] <= ax.lims[2]})

\* The number of lattice points first + k * step of the last call that do
\* not lie beyond last (step > 0).
InRangeCount ==
    Cardinality({k \in 0..(Abs(Coarse(call.last[1]) - Coarse(call.first[1])) + 1) :
                    call.first[1] + k * call.step[1] <= call.last[1]})

\* C22: after a symbolic call that returned, the installed ticks that lie
\* within the limits in force are no more than the lattice points of
\* (first, last, step) up to last, which are no more than the lattice points
\* the generator returns.
C22_Materialized ==
    (call.symbolic /\ call.ret = "True") =>
        /\ Materialized <= InRangeCount
        /\ InRangeCount <= CallCount

\* A symbolic call has installed three ticks of which the limits it wrote
\* hold two.
C22_Witness ==
    /\ call.symbolic /\ call.ret = "True"
    /\ Len(ax.ticks) = 3
    /\ Materialized = 2
    /\ InRangeCount = 2

\* The last call was a symbolic call on a rectilinear axes with step > 0,
\* first <= last and v > 0 that returned.
SymbolicRectilinearDone ==
    /\ call.symbolic /\ call.ret = "True"
    /\ ax.name = "rectilinear"
    /\ call.step[1] > 0 /\ call.first[1] <= call.last[1] /\ call.v > 0

C23_Terminal ==
    call.ret = "True" =>
        /\ ax.formatter = "fixed" => Len(ax.labels) = Len(ax.ticks)
        /\ \A i \in At("set_lim") : ax.lims = call.log[i].arg

\* C26 (as claimed): a call that returns True and repeats the call before
\* it leaves the ticks, the labels shown and the limits as that call left
\* them.
C26_Idempotent == (call.repeat /\ call.ret = "True") => call.kept

(***************************************************************************)
(* Reading a label back.  These definitions serve the properties below.    *)
(***************************************************************************)
LTDone == lt.pc = "done" /\ ~lt.out.raised

\* The coefficient at index i of the lattice of the call: first + (i-1)*step.
Coef(i) == lt.first + (i - 1) * lt.step

\* The fraction num/den in lowest terms of the coefficient C / Q.
LowNum(C) == CHOOSE n \in -Abs(C)..Abs(C) :
                \E d \in 1..Q : /\ n * Q = C * d
                                /\ \A e \in 1..(d - 1) : (C * e) % Q # 0

LowDen(C) == CHOOSE d \in 1..Q : /\ (C * d) % Q = 0
                                 /\ \A e \in 1..(d - 1) : (C * e) % Q # 0

Positions(label, tok) == {i \in 1..Len(label) : label[i] = tok}

IsDigit(tok) == \E d \in 1..10 : DigitChar[d] = tok

DigitVal(tok) == (CHOOSE d \in 1..10 : DigitChar[d] = tok) - 1

RECURSIVE parse_int(_)
parse_int(digits) ==
    IF digits = <<>> THEN 0
    ELSE 10 * parse_int(SubSeq(digits, 1, Len(digits) - 1))
         + DigitVal(digits[Len(digits)])

\* The number of leading digits of a piece of a label.
LeadDigits(seq) ==
    CHOOSE k \in 0..Len(seq) :
        /\ \A i \in 1..k : IsDigit(seq[i])
        /\ k < Len(seq) => ~IsDigit(seq[k + 1])

\* The label without its '$' delimiters and without a leading minus sign.
Unsigned(label) ==
    IF Len(label) >= 3 /\ label[2] = "-"
    THEN SubSeq(label, 3, Len(label) - 1)
    ELSE SubSeq(label, 2, Len(label) - 1)

HasFraction(label) == Positions(label, "\\dfrac{") # {}

\* The numerator and the denominator slots of the label.
NumSlot(label) ==
    LET u == Unsigned(label)
    IN  IF HasFraction(label)
        THEN SubSeq(u, 2, (CHOOSE i \in 1..Len(u) : u[i] = "}{") - 1)
        ELSE u

DenSlot(label) ==
    LET u == Unsigned(label)
    IN  IF HasFraction(label)
        THEN SubSeq(u, (CHOOSE i \in 1..Len(u) : u[i] = "}{") + 1, Len(u) - 1)
        ELSE <<>>

\* A slot read as "digits, then the unit's part": the number written (1 when
\* no numeral is written in front of the unit's part), or -1 when the slot is
\* not of that form.
SlotValue(slot, part) ==
    LET k    == LeadDigits(slot)
        rest == SubSeq(slot, k + 1, Len(slot))
    IN  IF part = <<"1">>
        THEN (IF rest = <<>> /\ k > 0 THEN parse_int(slot)
              ELSE IF slot = <<>> THEN 1 ELSE -1)
        ELSE IF rest = part THEN (IF k = 0 THEN 1 ELSE parse_int(SubSeq(slot, 1, k)))
        ELSE -1

\* The label parsed back as sign * numerator / denominator * unit.
ParsedNum(label, symbol) ==
    IF label = <<"$", "0", "$">> THEN 0
    ELSE (IF label[2] = "-" THEN -1 ELSE 1)
         * SlotValue(NumSlot(label), s_num_of(symbol))

ParsedDen(label, symbol) ==
    IF label = <<"$", "0", "$">> THEN 1
    ELSE SlotValue(DenSlot(label), s_den_of(symbol))

(***************************************************************************)
(* Properties of _labels_and_ticks, checked under SpecLT.                  *)
(***************************************************************************)

\* The number of lattice points first + k*step (k >= 0) below last + step/2.
LatticeCount ==
    Cardinality({k \in 0..(2 * MaxNum + 1) :
                    2 * (lt.first + k * lt.step) < 2 * lt.last + lt.step})

\* C3 (as claimed): for step > 0 the labels and the positions both have
\* length floor((last - first) / step + 0.5) + 1.
C3_Original ==
    (LTDone /\ lt.step > 0) =>
        /\ Len(lt.out.labels) = Len(lt.out.ticks)
        /\ Len(lt.out.ticks)
             = FloorDiv(2 * (lt.last - lt.first) + lt.step, 2 * lt.step) + 1

\* C3 (amended): for step > 0 the labels and the positions have the same
\* length, the number of lattice points first + k*step strictly below
\* last + step/2, that is max(0, ceil((last - first) / step + 0.5)); it is
\* floor((last - first) / step + 0.5) + 1 when first <= last and
\* (last - first) / step is not a half-integer.
C3_Length ==
    (LTDone /\ lt.step > 0) =>
        /\ Len(lt.out.labels) = Len(lt.out.ticks)
        /\ Len(lt.out.ticks) = LatticeCount
        /\ (lt.first <= lt.last
            /\ (2 * (lt.last - lt.first) + lt.step) % (2 * lt.step) # 0)
           => Len(lt.out.ticks)
                = FloorDiv(2 * (lt.last - lt.first) + lt.step, 2 * lt.step) + 1

\* A call whose (last - first) / step is a half-integer has returned.
C3_Witness ==
    /\ LTDone /\ lt.step > 0 /\ lt.first <= lt.last
    /\ (2 * (lt.last - lt.first) + lt.step) % (2 * lt.step) = 0
    /\ Len(lt.out.ticks) >= 2

C5_Aligned ==
    LTDone =>
        /\ Len(lt.out.labels) = Len(lt.out.ticks)
        /\ \A i \in 1..Len(lt.out.labels) :
              /\ lt.out.ticks[i] = lt.symval * Coef(i)
              /\ ParsedNum(lt.out.labels[i], lt.symbol) * Q
                   = Coef(i) * ParsedDen(lt.out.labels[i], lt.symbol)

\* A call has returned at least three labels of different coefficients.
C5_Witness ==
    /\ LTDone /\ Len(lt.out.labels) >= 3
    /\ lt.out.labels[1] # lt.out.labels[3]

\* C6: a coefficient whose fraction has numerator 0 gets the label '$0$',
\* whatever the symbol.
C6_Zero ==
    LTDone =>
        \A i \in 1..Len(lt.out.labels) :
            (LowNum(Coef(i)) = 0) => lt.out.labels[i] = <<"$", "0", "$">>

\* A zero coefficient has been labelled under a two-part symbol.
C6_Witness ==
    /\ LTDone /\ lt.symbol = <<"\\pi", "/", "\\gamma">>
    /\ \E i \in 1..Len(lt.out.labels) : i > 1 /\ Coef(i) = 0

\* C7: the label of a non-zero coefficient holds a minus sign iff the
\* coefficient is negative; the sign follows the leading '$' at once and
\* occurs nowhere else (not in the numerator, not in the denominator).
C7_Sign ==
    LTDone =>
        \A i \in 1..Len(lt.out.labels) :
            (Coef(i) # 0) =>
                /\ (Positions(lt.out.labels[i], "-") # {}) <=> (Coef(i) < 0)
                /\ Positions(lt.out.labels[i], "-") \subseteq {2}
                /\ lt.out.labels[i][1] = "$"

\* A negative coefficient has been labelled with a fraction construct.
C7_Witness ==
    /\ LTDone
    /\ \E i \in 1..Len(lt.out.labels) :
          Coef(i) < 0 /\ HasFraction(lt.out.labels[i])

\* C8: the label of a non-zero coefficient num/den uses the fraction
\* construct iff den # 1 or the symbol's denominator part is not '1'; the
\* denominator slot then holds den (only when den # 1) followed by the
\* symbol's denominator part (only when it is not '1'); otherwise no piece
\* of the fraction construct is written.
C8_Fraction ==
    LTDone =>
        \A i \in 1..Len(lt.out.labels) :
            (Coef(i) # 0) =>
                LET label == lt.out.labels[i]
                    den   == LowDen(Coef(i))
                    s_den == s_den_of(lt.symbol)
                    slot  == DenSlot(label)
                    k     == LeadDigits(slot)
                IN  /\ HasFraction(label) <=> (den # 1 \/ s_den # <<"1">>)
                    /\ HasFraction(label) =>
                          /\ Unsigned(label)[1] = "\\dfrac{"
                          /\ label[Len(label) - 1] = "}"
                          /\ Cardinality(Positions(label, "}{")) = 1
                          /\ (k > 0) <=> (den # 1)
                          /\ k > 0 => parse_int(SubSeq(slot, 1, k)) = den
                          /\ SubSeq(slot, k + 1, Len(slot))
                               = (IF s_den # <<"1">> THEN s_den ELSE <<>>)
                    /\ ~HasFraction(label) =>
                          Positions(label, "}{") \cup Positions(label, "}") = {}

\* A whole coefficient has been labelled under a two-part symbol, and a
\* fractional one under a one-part symbol.
C8_Witness ==
    /\ LTDone
    /\ \E i \in 1..Len(lt.out.labels) :
          /\ Coef(i) # 0
          /\ HasFraction(lt.out.labels[i])
          /\ \/ LowDen(Coef(i)) = 1
             \/ s_den_of(lt.symbol) = <<"1">>

\* C9: in the numerator of the label of a non-zero coefficient num/den the
\* magnitude |num| is written iff |num| # 1; with |num| = 1 only the symbol's
\* numerator part is written, which for the part '1' is the bare numeral:
\* the numerator is never empty.
C9_Numerator ==
    LTDone =>
        \A i \in 1..Len(lt.out.labels) :
            (Coef(i) # 0) =>
                LET slot  == NumSlot(lt.out.labels[i])
                    num   == Abs(LowNum(Coef(i)))
                    s_num == s_num_of(lt.symbol)
                    k     == LeadDigits(slot)
                IN  /\ slot # <<>>
                    /\ (num # 1 /\ s_num # <<"1">>) =>
                          /\ k > 0 /\ parse_int(SubSeq(slot, 1, k)) = num
                          /\ SubSeq(slot, k + 1, Len(slot)) = s_num
                    /\ (num # 1 /\ s_num = <<"1">>) =>
                          k = Len(slot) /\ parse_int(slot) = num
                    /\ (num = 1 /\ s_num # <<"1">>) => slot = s_num
                    /\ (num = 1 /\ s_num = <<"1">>) => slot = <<"1">>

\* A coefficient 1/den or -1/den has been labelled under a symbol whose
\* numerator part is '1'.
C9_Witness ==
    /\ LTDone /\ s_num_of(lt.symbol) = <<"1">>
    /\ \E i \in 1..Len(lt.out.labels) : Abs(LowNum(Coef(i))) = 1

\* C10: round trip: the label of the coefficient p/q, parsed back as
\* sign * numerator / denominator * unit, gives p/q in lowest terms.
C10_RoundTrip ==
    LTDone =>
        \A i \in 1..Len(lt.out.labels) :
            /\ ParsedNum(lt.out.labels[i], lt.symbol) = LowNum(Coef(i))
            /\ ParsedDen(lt.out.labels[i], lt.symbol) = LowDen(Coef(i))

\* A label with a numerator of two digits and a denominator has been built.
C10_Witness ==
    /\ LTDone
    /\ \E i \in 1..Len(lt.out.labels) :
          Abs(LowNum(Coef(i))) >= 10 /\ LowDen(Coef(i)) > 1

\* The positions returned are strictly increasing.
Increasing(ticks) == \A i \in 1..(Len(ticks) - 1) : ticks[i] < ticks[i + 1]

C20_Sanitise ==
    san.pc = "done" =>
        /\ ~san.out.raised
        /\ Len(san.out.values) = Len(san.y)
        /\ Len(san.out.nan) = Len(san.y)
        /\ \A i \in 1..Len(san.y) :
              /\ san.out.nan[i] <=>
                    (i >= 2 /\ Abs(san.y[i] - san.y[i - 1]) > san.maximum_diff)
              /\ ~san.out.nan[i] => san.out.values[i] = san.y[i]
        /\ san.out.caller = san.y

\* C21 (as claimed): sanitise raises for no sequence, returns as many
\* entries as it was given, and replaces no entry of a sequence of length 0
\* or 1.
C21_NeverRaises ==
    san.pc = "done" =>
        /\ ~san.out.raised
        /\ Len(san.out.values) = Len(san.y)
        /\ Len(san.y) <= 1 => \A i \in 1..Len(san.out.nan) : ~san.out.nan[i]

(***************************************************************************)
(* Properties of CustomPlot.axis_fix, checked under SpecFix.               *)
(***************************************************************************)

\* The positions in the log of the call of axis_fix of the calls of one
\* accessor.
FixAt(op) == {i \in 1..Len(fix.log) : fix.log[i].op = op}

\* The call of axis_fix was a non-trigonometric call on a coordinate the
\* plot has, and has returned.
FixPlainDone ==
    /\ fix.pc = "done" /\ ~fix.trigonometric
    /\ fix.axis \in {"x", "y"} \/ fix.dim = "3d"

\* C27 (as claimed): a non-trigonometric call writes ticks that start at
\* first and reach last exactly if first, last and step (not 0) are all
\* provided, and writes the limits (first, last) exactly if first and last
\* are provided; a bound of 0 is a provided bound.
C27_Provided ==
    FixPlainDone =>
        LET first == fix.range.first
            last  == fix.range.last
            step  == fix.range.step
        IN  /\ (Given(first) /\ Given(last) /\ Truthy(step)) <=> FixAt("set_ticks") # {}
            /\ \A i \in FixAt("set_ticks") :
                  /\ Len(fix.log[i].arg) >= 1
                  /\ fix.log[i].arg[1] = first[1]
                  /\ fix.log[i].arg[Len(fix.log[i].arg)] >= last[1]
            /\ (Given(first) /\ Given(last)) <=> FixAt("set_lim") # {}
            /\ \A i \in FixAt("set_lim") : fix.log[i].arg = <<first[1], last[1]>>

(***************************************************************************)
(* Properties of polish, checked under SpecPol.                            *)
(***************************************************************************)

\* C29: the callback is connected at most once to the canvas of a figure;
\* a figure it is connected to has a polar axes and is a key of _gid; and no
\* run of the callback has failed to find its figure in _gid.
C29_ConnectedOnce ==
    /\ \A f \in Figs :
          /\ pol.connected[f] <= 1
          /\ pol.connected[f] = 1 => (f \in pol.gid /\ has_polar(pol.axes[f]))
          /\ f \in pol.gid => pol.connected[f] = 1
    /\ ~pol.error

\* polish has been called three times on a figure with a polar axes, and the
\* callback, connected once, has drawn the patches of that axes.
C29_Witness ==
    /\ pol.calls = 3
    /\ \E f \in Figs :
          /\ pol.connected[f] = 1
          /\ Len(pol.axes[f]) >= 2
          /\ \A i \in 1..Len(pol.axes[f]) : pol.axes[f][i].polished
          /\ \E i \in 1..Len(pol.axes[f]) : pol.axes[f][i].patches = 2
          /\ \A g \in Figs \ {f} : pol.connected[g] = 0

(***************************************************************************)
(* Properties of the tab titles, checked under SpecTab.                    *)
(***************************************************************************)

\* C30: the loop that truncates the tab titles ends, whatever the titles and
\* the width of the window: the constructor gets to set the tab texts.
C30_Terminates == <>(tab.pc = "done")

(***************************************************************************)
(* Properties of show and the options window, checked under SpecGui.       *)
(***************************************************************************)

\* The messages taken from the queue so far, in the order taken.
Taken ==
    [i \in 1..Len(gui.applied) |-> gui.applied[i].n]
        \o (IF gui.cur["main"] = NoData THEN <<>> ELSE <<gui.cur["main"].n>>)

\* C28: with a backend other than Tk's, the process of the options window
\* neither calls limit nor applies data to the figure; every widget event
\* has put exactly one message in the queue; the main process takes the
\* messages one at a time in the order of the events, a tuple going to
\* _set_text_data and anything else to _set_axes_data; and at most one
\* invocation of limit is in progress.
C28_Queue ==
    gui.backend \notin TkBackends =>
        /\ \A r \in gui.running : r.proc = "main"
        /\ \A i \in 1..Len(gui.applied) : gui.applied[i].proc = "main"
        /\ gui.cur["gui"] = NoData
        /\ Taken \o [i \in 1..Len(gui.queue) |-> gui.queue[i].n]
               = [i \in 1..gui.events |-> i]
        /\ gui.pc["main"] = "_set_text_data" => gui.cur["main"].kind = "tuple"
        /\ gui.pc["main"] \in {"_set_axes_data", "limit"} => gui.cur["main"].kind # "tuple"
        /\ Cardinality(gui.running) <= 1

\* Three events have been handled in the window's own process, two of them
\* waiting in the queue while the main process is inside limit for the
\* first.
C28_Witness ==
    /\ gui.backend \notin TkBackends
    /\ gui.events = 3
    /\ Len(gui.queue) = 2
    /\ gui.queue[1].kind = "tuple"
    /\ gui.queue[2].kind = "dict"
    /\ gui.pc["main"] = "limit"
    /\ gui.running = {[proc |-> "main", n |-> 1, coordaxis |-> "z"]}

====
